---------------------------- MODULE Spec2Model ----------------------------
(***************************************************************************)
(* Model of Plugins/NativeEngine/Source/ShaderCompilerOpenGL.cpp:          *)
(* the ShaderCompiler facade (constructor, destructor, Compile) and the    *)
(* helpers AddShader and CompileShader.                                    *)
(*                                                                         *)
(* Texts (std::string) are sequences of lexical chunks; find / replace /   *)
(* substr work on chunk positions.  The chunks are chosen so that every    *)
(* literal the code searches for spans several chunks, so partial and      *)
(* overlapping occurrences exist in the model.                             *)
(*                                                                         *)
(* The glslang / SPIRV-Cross results (does a stage parse, does the program *)
(* link, which resources a stage declares, what the emitter prints for the *)
(* function bodies) are functions of the source strings handed to Compile; *)
(* a source is therefore modelled as the record of these results.          *)
(***************************************************************************)
EXTENDS Integers, Sequences, FiniteSets, TLC

VARIABLES
    android,          \* build preset: TRUE when compiled with ANDROID defined
    alive,            \* number of ShaderCompiler objects alive
    toolchain,        \* glslang process initialisation count
    pc,               \* position of the control flow inside Compile
    vertexSource,     \* Compile's argument (as parsed by glslang)
    fragmentSource,   \* Compile's argument (as parsed by glslang)
    linkable,         \* result program.link will give for this pair
    program,          \* glslang::TProgram: stages added, linked flag
    stage,            \* CompileShader's argument `stage`
    spirv,            \* CompileShader's local `spirv` (the lowered stage)
    compiler,         \* CompileShader's local `compiler`
    uniformBuffer,    \* CompileShader's local `uniformBuffer`
    index,            \* CompileShader's loop variable `index`
    compiled,         \* CompileShader's local `compiled`
    glsl,             \* Compile's locals vertexGLSL / fragmentGLSL, by stage
    handles,          \* Compile's locals vertexCompiler / fragmentCompiler
    delivered,        \* invocations of onCompiled made by this call
    outcome,          \* how the call ended: none, running, returned, thrown, crashed
    error,            \* what was thrown, and where
    trace,            \* history: pipeline steps started by this call
    read89            \* history: stages whose uniform_buffers[0] was read

vars == <<android, alive, toolchain, pc, vertexSource, fragmentSource,
          linkable, program, stage, spirv, compiler, uniformBuffer, index, compiled,
          glsl, handles, delivered, outcome, error, trace, read89>>

---------------------------------------------------------------------------
(* Bounds of the model *)

\* longest list of (texture, sampler) uses of a stage
MaxPairs == 2
\* most members of the first uniform buffer of a stage
MaxMembers == 2
\* most further uniform buffers of a stage
MaxExtraBuffers == 1
\* longest emitted function body, in chunks
MaxBody == 4

---------------------------------------------------------------------------
(* std::string operations used by CompileShader *)

Stages == {"VS", "FS"}

npos == 0

\* s.find(pat): the first position at which pat occurs in s, npos if none
find(s, pat) ==
    LET hits == {i \in 1..(Len(s) - Len(pat) + 1) :
                    SubSeq(s, i, i + Len(pat) - 1) = pat}
    IN  IF hits = {} THEN npos
        ELSE CHOOSE i \in hits : \A j \in hits : i <= j

\* s.replace(pos, n, rep)
replace(s, pos, n, rep) ==
    SubSeq(s, 1, pos - 1) \o rep \o SubSeq(s, pos + n, Len(s))

\* s.substr(n): s without its first n chunks
substr(s, n) == SubSeq(s, n + 1, Len(s))

Occurs(s, pat) == find(s, pat) # npos

\* the literals of CompileShader
unusedUniform == <<"uniform ", "Frame", " ", "Unused">>

commentedUnusedUniform == <<"//">> \o unusedUniform

unusedUniformAccess(st) ==
    IF st = "VS" THEN <<"Unused", "VS", ".">> ELSE <<"Unused", "FS", ".">>

versionLine300es == <<"#version 300 es\n">>

fragDef == <<"layout(location = 0) out highp vec4 ", "glFragColor", ";">>

fragColor == <<"glFragColor">>

legacyFragColor == <<"gl_FragColor">>

\* the name given to the unused struct instance
UnusedName(st) == IF st = "VS" THEN <<"Unused", "VS">> ELSE <<"Unused", "FS">>

---------------------------------------------------------------------------
(* What glslang and SPIRV-Cross report for a source string *)

SeqsUpTo(S, n) == UNION {[1..k -> S] : k \in 0..n}

Injective(q) == \A i, j \in 1..Len(q) : q[i] = q[j] => i = j

RECURSIVE Concat(_)
Concat(seqs) ==
    IF seqs = <<>> THEN <<>> ELSE Head(seqs) \o Concat(Tail(seqs))

\* a separate sampler / a separate texture of a stage
Sampler(id, name, binding) == [id |-> id, name |-> name, binding |-> binding]

Texture(id, name) == [id |-> id, name |-> name]

\* a member of a uniform buffer: SPIRType columns and vecsize
Member(name, columns, vecsize) ==
    [name |-> name, columns |-> columns, vecsize |-> vecsize]

\* a uniform-buffer Resource with the struct type behind base_type_id
Buffer(id, typeName, members) ==
    [id |-> id, typeName |-> typeName, members |-> members]

\* one use of a texture with a sampler in the shader code
Use(image_id, sampler_id) == [image_id |-> image_id, sampler_id |-> sampler_id]

Source(text, parses, samplers, textures, uses, ubos, body, emits) ==
    [text |-> text, parses |-> parses, samplers |-> samplers,
     textures |-> textures, uses |-> uses, ubos |-> ubos, body |-> body,
     emits |-> emits]

S1 == Sampler(11, <<"albedoSampler">>, 3)

S2 == Sampler(12, <<"normalSampler">>, 1)

T1 == Texture(21, <<"albedoTexture">>)

T2 == Texture(22, <<"normalTexture">>)

Vec4 == <<1, 4>>

Mat4 == <<4, 4>>

Vec3 == <<1, 3>>

Float == <<1, 1>>

Shapes == {Vec4, Mat4, Vec3, Float}

MemberNames == <<"viewProjection", "color", "world", "fog", "m5", "m6">>

MemberAt(i, shape) == Member(MemberNames[i], shape[1], shape[2])

\* the first uniform buffer with the given member shapes
FirstBuffer(typeName, shapes) ==
    Buffer(41, typeName, [i \in 1..Len(shapes) |-> MemberAt(i, shapes[i])])

ExtraTypeNames == <<"Light", "Fog", "Extra3">>

ExtraMemberNames == <<"lightDir", "fogColor", "e3">>

\* the k-th further uniform buffer, with a single member of the given shape
ExtraBuffer(k, shape) ==
    Buffer(41 + k, ExtraTypeNames[k],
           <<Member(ExtraMemberNames[k], shape[1], shape[2])>>)

ExtraBuffers(shapes) == [k \in 1..Len(shapes) |-> ExtraBuffer(k, shapes[k])]

SourceText(st) == IF st = "VS" THEN <<"<vertex source>">> ELSE <<"<fragment source>">>

\* the scenario of the specification: uniform Frame { ... }, one sampler at slot 3
Good(st) ==
    IF st = "VS"
    THEN Source(SourceText(st), TRUE, <<>>, <<>>, <<>>,
                <<FirstBuffer("Frame", <<Mat4, Vec4>>)>>, <<"@">>, TRUE)
    ELSE Source(SourceText(st), TRUE, <<S1>>, <<T1>>, <<Use(21, 11)>>,
                <<FirstBuffer("Frame", <<Vec4>>)>>, <<"glFragColor", "@">>, TRUE)

NoParse(st) == [Good(st) EXCEPT !.parses = FALSE]

NoEmit(st) == [Good(st) EXCEPT !.emits = FALSE]

NoUbo(st) == [Good(st) EXCEPT !.ubos = <<>>]

BadShape(st) == [Good(st) EXCEPT !.ubos = <<FirstBuffer("Frame", <<Vec4, Vec3>>)>>]

BaseSources(st) == {Good(st), NoParse(st), NoEmit(st), NoUbo(st), BadShape(st)}

\* sources that differ in their samplers and in the uses of them
SamplerLists == {<<>>, <<S1>>, <<S1, S2>>, <<S2, S1>>}

UseLists(ss) ==
    {q \in SeqsUpTo({Use(t, ss[i].id) : t \in {21, 22}, i \in 1..Len(ss)}, MaxPairs) :
        Injective(q)}

SamplerSources(st) ==
    UNION {{[Good(st) EXCEPT !.samplers = ss, !.textures = <<T1, T2>>, !.uses = q] :
                q \in UseLists(ss)} : ss \in SamplerLists}

\* sources that differ in their uniform buffers
UniformSources(st) ==
    {[Good(st) EXCEPT !.ubos = <<FirstBuffer("Frame", ms)>> \o ExtraBuffers(xs)] :
        ms \in SeqsUpTo(Shapes, MaxMembers),
        xs \in SeqsUpTo({Vec4, Vec3}, MaxExtraBuffers)}

\* chunks the emitter may print in a function body: "@" stands for the
\* qualifier of an access to a member of the first uniform buffer, the others
\* are pieces of identifiers and references to the fragment output
BodyChunks(st) ==
    IF st = "VS" THEN {"@", "Unused", "VS", "."} ELSE {"@", "glFragColor", "."}

\* sources that differ in the emitted body, and in the uniform block's type name
TextSources(st) ==
    {[Good(st) EXCEPT !.body = b] : b \in SeqsUpTo(BodyChunks(st), MaxBody)}
    \cup {[Good(st) EXCEPT !.ubos = <<FirstBuffer("Scene", <<Vec4>>)>>, !.body = b] :
            b \in SeqsUpTo({"@"}, 1)}

\* the calls Compile(vertexSource, fragmentSource, .) of the model, each with
\* the result the link of the pair gives
Calls ==
    (BaseSources("VS") \X BaseSources("FS") \X BOOLEAN)
    \cup ((SamplerSources("VS") \cup UniformSources("VS") \cup TextSources("VS"))
            \X {Good("FS")} \X {TRUE})
    \cup ({Good("VS")} \X
            (SamplerSources("FS") \cup UniformSources("FS") \cup TextSources("FS"))
            \X {TRUE})

---------------------------------------------------------------------------
(* spirv_cross::CompilerGLSL as CompileShader uses it *)

NoCompiler == [stage |-> "none"]

NoResource == Buffer(0, "", <<>>)

NoError == [kind |-> "none", at |-> <<>>]

NoProgram == [shaders |-> <<>>, linked |-> FALSE]

NoStrings == [st \in Stages |-> <<>>]

NoHandles == [st \in Stages |-> NoCompiler]

Src(st) == IF st = "VS" THEN vertexSource ELSE fragmentSource

InstanceName(b) == <<"_", b.typeName>>

Range(q) == {q[i] : i \in 1..Len(q)}

\* the compiler built from the re-parsed binary form, with the target options
NewCompiler(st, src, droid) ==
    LET named == Range(src.samplers) \cup Range(src.textures)
    IN  [stage    |-> st,
         names    |-> [id \in {r.id : r \in named} |->
                          (CHOOSE r \in named : r.id = id).name]
                      @@ [id \in {b.id : b \in Range(src.ubos)} |->
                          InstanceName(CHOOSE b \in Range(src.ubos) : b.id = id)],
         binding  |-> [id \in {r.id : r \in Range(src.samplers)} |->
                          (CHOOSE r \in Range(src.samplers) : r.id = id).binding]
                      @@ [id \in {b.id : b \in Range(src.ubos)} |-> 0],
         header   |-> <<>>,
         combined |-> <<>>,
         options  |-> [version |-> IF droid THEN 300 ELSE 430,
                       es |-> droid,
                       emit_uniform_buffer_as_plain_uniforms |-> TRUE]]

get_decoration(c, id) == IF id \in DOMAIN c.binding THEN c.binding[id] ELSE 0

set_name(c, id, name) == [c EXCEPT !.names = (id :> name) @@ c.names]

set_decoration(c, id, slot) == [c EXCEPT !.binding = (id :> slot) @@ c.binding]

unset_decoration(c, id) ==
    [c EXCEPT !.binding = [i \in (DOMAIN c.binding) \ {id} |-> c.binding[i]]]

add_header_line(c, line) == [c EXCEPT !.header = Append(c.header, line)]

\* the name build_combined_image_samplers gives a combined image-sampler
CombinedName(c, use) ==
    <<"SPIRV_Cross_Combined">> \o c.names[use.image_id] \o c.names[use.sampler_id]

\* one combined image-sampler per use of a texture with a sampler, in order;
\* a combined image-sampler has no binding decoration
build_combined_image_samplers(c, src) ==
    LET n == Len(src.uses)
    IN  [c EXCEPT
           !.combined = [k \in 1..n |->
                           [combined_id |-> 30 + k,
                            image_id    |-> src.uses[k].image_id,
                            sampler_id  |-> src.uses[k].sampler_id]],
           !.names = [k \in {30 + j : j \in 1..n} |->
                         CombinedName(c, src.uses[k - 30])] @@ c.names]

\* a loop body that renames the combined image-sampler and forgets its binding
RemapSamplerNameOnly(c, separate, combinedSamplers) ==
    LET hits == {k \in 1..Len(combinedSamplers) :
                    combinedSamplers[k].sampler_id = separate.id}
        id == IF hits = {} THEN separate.id
              ELSE combinedSamplers[CHOOSE k \in hits : \A j \in hits : k <= j].combined_id
    IN  set_name(c, id, separate.name)

\* one iteration of the loop over resources.separate_samplers
RemapSampler(c, separate, combinedSamplers) ==
    LET binding == get_decoration(c, separate.id)
        hits == {k \in 1..Len(combinedSamplers) :
                    combinedSamplers[k].sampler_id = separate.id}
        id == IF hits = {} THEN separate.id
              ELSE combinedSamplers[CHOOSE k \in hits : \A j \in hits : k <= j].combined_id
    IN  set_decoration(set_name(c, id, separate.name), id, binding)

RECURSIVE RemapSamplers(_, _, _)
RemapSamplers(c, separate_samplers, combinedSamplers) ==
    IF separate_samplers = <<>> THEN c
    ELSE RemapSamplers(RemapSampler(c, Head(separate_samplers), combinedSamplers),
                       Tail(separate_samplers), combinedSamplers)

\* a choice of keyword with the two branches exchanged
uniformTypeSwapped(memberType) ==
    IF memberType.columns = 1 /\ memberType.vecsize = 4 THEN "mat4 "
    ELSE IF memberType.columns = 4 /\ memberType.vecsize = 4 THEN "vec4 "
    ELSE ""

\* the type keyword chosen for a member, "" when its shape is not supported
uniformType(memberType) ==
    IF memberType.columns = 1 /\ memberType.vecsize = 4 THEN "vec4 "
    ELSE IF memberType.columns = 4 /\ memberType.vecsize = 4 THEN "mat4 "
    ELSE ""

\* "uniform " + uniformType + uniformName + ";"
HeaderLine(member) == <<"uniform ", uniformType(member), member.name, ";">>

\* the text compile() prints: version line, header lines, the uniform structs
\* and their instances, the combined samplers, the fragment output, the body
Keyword(m) ==
    IF m.columns = 4 THEN "mat4 "
    ELSE IF m.vecsize = 4 THEN "vec4 "
    ELSE IF m.vecsize = 3 THEN "vec3 "
    ELSE "float "

StructText(c, b) ==
    <<"struct ", b.typeName, "{">>
    \o Concat([i \in 1..Len(b.members) |->
                 <<Keyword(b.members[i]), b.members[i].name, ";">>])
    \o <<"};", "\n", "uniform ", b.typeName, " ">> \o c.names[b.id] \o <<";", "\n">>

\* an access to a member of the first uniform buffer is qualified with the
\* name of the struct instance
AccessText(c, src) ==
    IF src.ubos = <<>> THEN <<>> ELSE c.names[src.ubos[1].id] \o <<".">>

EmitText(c, src) ==
    (IF c.options.es THEN versionLine300es ELSE <<"#version 430\n">>)
    \o Concat([i \in 1..Len(c.header) |-> c.header[i] \o <<"\n">>])
    \o Concat([i \in 1..Len(src.ubos) |-> StructText(c, src.ubos[i])])
    \o Concat([k \in 1..Len(c.combined) |->
                 <<"uniform sampler2D ">> \o c.names[c.combined[k].combined_id]
                 \o <<";", "\n">>])
    \o (IF c.stage # "FS" THEN <<>>
        ELSE IF c.options.es THEN fragDef \o <<"\n">>
        ELSE <<"layout(location = 0) out vec4 ", "glFragColor", ";", "\n">>)
    \o <<"void main(){">>
    \o Concat([i \in 1..Len(src.body) |->
                 IF src.body[i] = "@" THEN AccessText(c, src) ELSE <<src.body[i]>>])
    \o <<"}">>

\* what reading element 0 of an empty uniform_buffers list may yield
GarbageResources ==
    {Buffer(99, "garbage", <<>>),
     Buffer(99, "garbage", <<Member("garbage", 1, 4)>>),
     Buffer(99, "garbage", <<Member("garbage", 0, 0)>>)}

---------------------------------------------------------------------------
(* The operations *)

facade == <<android, alive, toolchain>>

args == <<vertexSource, fragmentSource, linkable>>

locals == <<spirv, compiler, uniformBuffer, index, compiled>>

history == <<delivered, read89>>

Init ==
    /\ android \in BOOLEAN
    /\ alive = 0
    /\ toolchain = 0
    /\ pc = "idle"
    /\ vertexSource = Good("VS")
    /\ fragmentSource = Good("FS")
    /\ linkable = TRUE
    /\ program = NoProgram
    /\ stage = "VS"
    /\ spirv = Good("VS")
    /\ compiler = NoCompiler
    /\ uniformBuffer = NoResource
    /\ index = 0
    /\ compiled = <<>>
    /\ glsl = NoStrings
    /\ handles = NoHandles
    /\ delivered = <<>>
    /\ outcome = "none"
    /\ error = NoError
    /\ trace = <<>>
    /\ read89 = {}

\* ShaderCompiler::ShaderCompiler(): glslang::InitializeProcess().  The caller
\* keeps at most one ShaderCompiler alive.
Construct ==
    /\ pc = "idle"
    /\ alive = 0
    /\ alive' = alive + 1
    /\ toolchain' = toolchain + 1
    /\ UNCHANGED <<android, pc, args, program, stage, locals, glsl, handles,
                   history, outcome, error, trace>>

\* a destructor that does not call FinalizeProcess
DestroyLeaking ==
    /\ pc = "idle"
    /\ alive > 0
    /\ alive' = alive - 1
    /\ UNCHANGED <<android, toolchain, pc, args, program, stage, locals, glsl,
                   handles, history, outcome, error, trace>>

\* ShaderCompiler::~ShaderCompiler(): glslang::FinalizeProcess()
Destroy ==
    /\ pc = "idle"
    /\ alive > 0
    /\ alive' = alive - 1
    /\ toolchain' = toolchain - 1
    /\ UNCHANGED <<android, pc, args, program, stage, locals, glsl, handles,
                   history, outcome, error, trace>>

\* an exception leaves Compile: every local of Compile and of CompileShader is
\* destroyed and onCompiled is not reached
Throw(kind, at, member) ==
    /\ pc' = "idle"
    /\ outcome' = "thrown"
    /\ error' = [kind |-> kind, at |-> at, member |-> member]
    /\ program' = NoProgram
    /\ spirv' = Good("VS")
    /\ compiler' = NoCompiler
    /\ uniformBuffer' = NoResource
    /\ index' = 0
    /\ compiled' = <<>>
    /\ glsl' = NoStrings
    /\ handles' = NoHandles
    /\ UNCHANGED <<facade, args, stage, delivered>>

\* Compile is entered: glslang::TProgram program; TShader vertexShader{...}
Compile(vs, fs, links) ==
    /\ pc = "idle"
    /\ alive > 0
    /\ outcome = "none"
    /\ vertexSource' = vs
    /\ fragmentSource' = fs
    /\ linkable' = links
    /\ program' = NoProgram
    /\ stage' = "VS"
    /\ pc' = "AddShaderVS"
    /\ outcome' = "running"
    /\ error' = NoError
    /\ delivered' = <<>>
    /\ trace' = <<>>
    /\ read89' = {}
    /\ glsl' = NoStrings
    /\ handles' = NoHandles
    /\ UNCHANGED <<facade, locals>>

\* the caller calls Compile on a live ShaderCompiler, with some pair of sources
Call ==
    /\ pc = "idle"
    /\ alive > 0
    /\ outcome = "none"
    /\ \E call \in Calls : Compile(call[1], call[2], call[3])

PcAddShader(st) == IF st = "VS" THEN "AddShaderVS" ELSE "AddShaderFS"

\* an AddShader that ignores the result of shader.parse
AddShaderLenient(st) ==
    /\ pc = PcAddShader(st)
    /\ program' = [program EXCEPT !.shaders = Append(program.shaders, st)]
    /\ trace' = trace \o <<<<"Parse", st>>, <<"Register", st>>>>
    /\ pc' = IF st = "VS" THEN "AddShaderFS" ELSE "Link"
    /\ UNCHANGED <<facade, args, stage, locals, glsl, handles, history,
                   outcome, error>>

\* a Compile that links right after the vertex stage was added
AddShaderOutOfOrder(st) ==
    /\ pc = PcAddShader(st)
    /\ IF Src(st).parses
       THEN /\ program' = [program EXCEPT !.shaders = Append(program.shaders, st)]
            /\ trace' = trace \o <<<<"Parse", st>>, <<"Register", st>>>>
            /\ pc' = "Link"
            /\ UNCHANGED <<facade, args, stage, locals, glsl, handles, history,
                           outcome, error>>
       ELSE /\ trace' = Append(trace, <<"Parse", st>>)
            /\ Throw("ParseFailure", <<"Parse", st>>, -1)
            /\ UNCHANGED read89

\* AddShader(program, shader, source): parse, then program.addShader
AddShader(st) ==
    /\ pc = PcAddShader(st)
    /\ IF Src(st).parses
       THEN /\ program' = [program EXCEPT !.shaders = Append(program.shaders, st)]
            /\ trace' = trace \o <<<<"Parse", st>>, <<"Register", st>>>>
            /\ pc' = IF st = "VS" THEN "AddShaderFS" ELSE "Link"
            /\ UNCHANGED <<facade, args, stage, locals, glsl, handles, history,
                           outcome, error>>
       ELSE /\ trace' = Append(trace, <<"Parse", st>>)
            /\ Throw("ParseFailure", <<"Parse", st>>, -1)
            /\ UNCHANGED read89

\* program.link, then vertexGLSL is built and CompileShader(VS) is entered
Link ==
    /\ pc = "Link"
    /\ trace' = Append(trace, <<"Link", "both">>)
    /\ IF linkable
       THEN /\ program' = [program EXCEPT !.linked = TRUE]
            /\ glsl' = [glsl EXCEPT !["VS"] = vertexSource.text]
            /\ stage' = "VS"
            /\ pc' = "Lower"
            /\ UNCHANGED <<facade, args, locals, handles, history, outcome, error>>
       ELSE /\ Throw("LinkFailure", <<"Link", "both">>, -1)
            /\ UNCHANGED read89

\* glslang::GlslangToSpv(*program.getIntermediate(stage), spirv)
Lower ==
    /\ pc = "Lower"
    /\ stage \in Range(program.shaders)
    /\ spirv' = Src(stage)
    /\ trace' = Append(trace, <<"Lower", stage>>)
    /\ pc' = "Reparse"
    /\ UNCHANGED <<facade, args, program, stage, compiler, uniformBuffer, index,
                   compiled, glsl, handles, history, outcome, error>>

\* parser.parse(), make_unique<CompilerGLSL>, set_common_options
Reparse ==
    /\ pc = "Reparse"
    /\ compiler' = NewCompiler(stage, spirv, android)
    /\ trace' = Append(trace, <<"Reparse", stage>>)
    /\ pc' = "Samplers"
    /\ UNCHANGED <<facade, args, program, stage, spirv, uniformBuffer, index,
                   compiled, glsl, handles, history, outcome, error>>

\* build_combined_image_samplers and the loop over separate_samplers
ReconcileSamplers(c, module) ==
    LET built == build_combined_image_samplers(c, module)
    IN  RemapSamplers(built, module.samplers, built.combined)

Samplers ==
    /\ pc = "Samplers"
    /\ compiler' = ReconcileSamplers(compiler, spirv)
    /\ trace' = Append(trace, <<"Samplers", stage>>)
    /\ pc' = "Uniforms"
    /\ UNCHANGED <<facade, args, program, stage, spirv, uniformBuffer, index,
                   compiled, glsl, handles, history, outcome, error>>

\* line 89, the stage declares a uniform buffer:
\* uniformBuffer = resources.uniform_buffers[0]
ReadUniformBuffer ==
    /\ pc = "Uniforms"
    /\ spirv.ubos # <<>>
    /\ uniformBuffer' = spirv.ubos[1]
    /\ index' = 0
    /\ read89' = read89 \cup {stage}
    /\ trace' = Append(trace, <<"Uniforms", stage>>)
    /\ pc' = "Member"
    /\ UNCHANGED <<facade, args, program, stage, spirv, compiler, compiled,
                   glsl, handles, delivered, outcome, error>>

\* line 89, the stage declares no uniform buffer: element 0 of an empty list
\* is read, which is undefined.  The read yields some resource ...
ReadPastEnd ==
    /\ pc = "Uniforms"
    /\ spirv.ubos = <<>>
    /\ \E g \in GarbageResources : uniformBuffer' = g
    /\ index' = 0
    /\ read89' = read89 \cup {stage}
    /\ trace' = Append(trace, <<"Uniforms", stage>>)
    /\ pc' = "Member"
    /\ UNCHANGED <<facade, args, program, stage, spirv, compiler, compiled,
                   glsl, handles, delivered, outcome, error>>

\* ... or get_type rejects the id that was read and throws ...
ReadPastEndThrows ==
    /\ pc = "Uniforms"
    /\ spirv.ubos = <<>>
    /\ read89' = read89 \cup {stage}
    /\ trace' = Append(trace, <<"Uniforms", stage>>)
    /\ Throw("CompilerError", <<"Uniforms", stage>>, -1)

\* ... or the process dies
ReadPastEndCrashes ==
    /\ pc = "Uniforms"
    /\ spirv.ubos = <<>>
    /\ read89' = read89 \cup {stage}
    /\ trace' = Append(trace, <<"Uniforms", stage>>)
    /\ pc' = "crashed"
    /\ outcome' = "crashed"
    /\ UNCHANGED <<facade, args, program, stage, locals, glsl, handles,
                   delivered, error>>

\* a loop that declares a member of an unsupported shape as vec4 and goes on
FlattenMemberLenient ==
    /\ pc = "Member"
    /\ IF index < Len(uniformBuffer.members)
       THEN LET memberType == uniformBuffer.members[index + 1]
            IN  /\ compiler' = add_header_line(compiler,
                                  IF uniformType(memberType) # ""
                                  THEN HeaderLine(memberType)
                                  ELSE <<"uniform ", "vec4 ", memberType.name, ";">>)
                /\ index' = index + 1
                /\ UNCHANGED <<facade, args, program, stage, spirv,
                               uniformBuffer, compiled, glsl, handles,
                               history, outcome, error, pc, trace>>
       ELSE /\ compiler' = unset_decoration(
                              set_name(compiler, uniformBuffer.id, UnusedName(stage)),
                              uniformBuffer.id)
            /\ pc' = "Emit"
            /\ UNCHANGED <<facade, args, program, stage, spirv, uniformBuffer,
                           index, compiled, glsl, handles, history, outcome,
                           error, trace>>

\* one iteration of the loop over type.member_types, or, at its end, the
\* renaming of the struct instance and the removal of its binding
FlattenMember ==
    /\ pc = "Member"
    /\ IF index < Len(uniformBuffer.members)
       THEN LET memberType == uniformBuffer.members[index + 1]
            IN  IF uniformType(memberType) # ""
                THEN /\ compiler' = add_header_line(compiler, HeaderLine(memberType))
                     /\ index' = index + 1
                     /\ UNCHANGED <<facade, args, program, stage, spirv,
                                    uniformBuffer, compiled, glsl, handles,
                                    history, outcome, error, pc, trace>>
                ELSE /\ Throw("UnsupportedUniformShape", <<"Uniforms", stage>>, index)
                     /\ UNCHANGED <<trace, read89>>
       ELSE /\ compiler' = unset_decoration(
                              set_name(compiler, uniformBuffer.id, UnusedName(stage)),
                              uniformBuffer.id)
            /\ pc' = "Emit"
            /\ UNCHANGED <<facade, args, program, stage, spirv, uniformBuffer,
                           index, compiled, glsl, handles, history, outcome,
                           error, trace>>

\* std::string compiled = compiler->compile()
Emit ==
    /\ pc = "Emit"
    /\ trace' = Append(trace, <<"Emit", stage>>)
    /\ IF spirv.emits
       THEN /\ compiled' = EmitText(compiler, spirv)
            /\ pc' = "Comment"
            /\ UNCHANGED <<facade, args, program, stage, spirv, compiler,
                           uniformBuffer, index, glsl, handles, history,
                           outcome, error>>
       ELSE /\ Throw("CompilerError", <<"Emit", stage>>, -1)
            /\ UNCHANGED read89

\* the unused struct instance is commented out
CommentOut(text) ==
    LET pos == find(text, unusedUniform)
    IN  IF pos # npos
        THEN replace(text, pos, Len(unusedUniform), commentedUnusedUniform)
        ELSE text

Comment ==
    /\ pc = "Comment"
    /\ compiled' = CommentOut(compiled)
    /\ trace' = Append(trace, <<"Patch", stage>>)
    /\ pc' = "Strip"
    /\ UNCHANGED <<facade, args, program, stage, spirv, compiler, uniformBuffer,
                   index, glsl, handles, history, outcome, error>>

\* an `if` in place of the `while`: only the first access is removed
StripOnce ==
    /\ pc = "Strip"
    /\ LET pos == find(compiled, unusedUniformAccess(stage))
       IN  compiled' = IF pos # npos
                       THEN replace(compiled, pos, Len(unusedUniformAccess(stage)), <<>>)
                       ELSE compiled
    /\ pc' = "Platform"
    /\ UNCHANGED <<facade, args, program, stage, spirv, compiler, uniformBuffer,
                   index, glsl, handles, history, outcome, error, trace>>

\* one test of the while loop that removes the accesses, with its body
Strip ==
    /\ pc = "Strip"
    /\ LET pos == find(compiled, unusedUniformAccess(stage))
       IN  IF pos # npos
           THEN /\ compiled' = replace(compiled, pos,
                                       Len(unusedUniformAccess(stage)), <<>>)
                /\ pc' = "Strip"
           ELSE /\ compiled' = compiled
                /\ pc' = "Platform"
    /\ UNCHANGED <<facade, args, program, stage, spirv, compiler, uniformBuffer,
                   index, glsl, handles, history, outcome, error, trace>>

\* the ANDROID branch: the version line is cut off, the output declaration is
\* removed and glFragColor is replaced
PatchAndroid(text) ==
    LET cut     == substr(text, Len(versionLine300es))
        posDef  == find(cut, fragDef)
        noDef   == IF posDef # npos
                   THEN replace(cut, posDef, Len(fragDef), <<>>)
                   ELSE cut
        posFrag == find(noDef, fragColor)
    IN  IF posFrag # npos
        THEN replace(noDef, posFrag, Len(fragColor), legacyFragColor)
        ELSE noDef

\* glsl is assigned and CompileShader returns the compiler; after the vertex
\* stage Compile builds fragmentGLSL and enters CompileShader(FS)
Platform ==
    /\ pc = "Platform"
    /\ LET text == IF android THEN PatchAndroid(compiled) ELSE compiled
       IN  glsl' = IF stage = "VS"
                   THEN [glsl EXCEPT !["VS"] = text, !["FS"] = fragmentSource.text]
                   ELSE [glsl EXCEPT !["FS"] = text]
    /\ handles' = [handles EXCEPT ![stage] = compiler]
    /\ compiler' = NoCompiler
    /\ uniformBuffer' = NoResource
    /\ index' = 0
    /\ compiled' = <<>>
    /\ spirv' = Good("VS")
    /\ stage' = "FS"
    /\ pc' = IF stage = "VS" THEN "Lower" ELSE "OnCompiled"
    /\ UNCHANGED <<facade, args, program, history, outcome, error, trace>>

ShaderInfo(handle, text) == [compiler |-> handle, glsl |-> text]

\* a callback invocation with the two ShaderInfo exchanged
OnCompiledSwapped ==
    /\ pc = "OnCompiled"
    /\ delivered' = Append(delivered, <<ShaderInfo(handles["FS"], glsl["FS"]),
                                        ShaderInfo(handles["VS"], glsl["VS"])>>)
    /\ handles' = NoHandles
    /\ trace' = Append(trace, <<"Callback", "both">>)
    /\ pc' = "Return"
    /\ UNCHANGED <<facade, args, program, stage, locals, glsl, read89,
                   outcome, error>>

\* onCompiled({vertexCompiler, vertexGLSL}, {fragmentCompiler, fragmentGLSL})
OnCompiled ==
    /\ pc = "OnCompiled"
    /\ delivered' = Append(delivered, <<ShaderInfo(handles["VS"], glsl["VS"]),
                                        ShaderInfo(handles["FS"], glsl["FS"])>>)
    /\ handles' = NoHandles
    /\ trace' = Append(trace, <<"Callback", "both">>)
    /\ pc' = "Return"
    /\ UNCHANGED <<facade, args, program, stage, locals, glsl, read89,
                   outcome, error>>

\* Compile returns: its locals are destroyed
Return ==
    /\ pc = "Return"
    /\ pc' = "idle"
    /\ outcome' = "returned"
    /\ program' = NoProgram
    /\ glsl' = NoStrings
    /\ UNCHANGED <<facade, args, stage, locals, handles, history, error, trace>>

\* the caller is done with the finished call: what the model remembers of it
\* (arguments, deliveries, outcome, steps) is dropped before the next call
Discard ==
    /\ pc = "idle"
    /\ outcome \in {"returned", "thrown"}
    /\ vertexSource' = Good("VS")
    /\ fragmentSource' = Good("FS")
    /\ linkable' = TRUE
    /\ stage' = "VS"
    /\ delivered' = <<>>
    /\ outcome' = "none"
    /\ error' = NoError
    /\ trace' = <<>>
    /\ read89' = {}
    /\ UNCHANGED <<facade, pc, program, locals, glsl, handles>>

Next ==
    \/ Construct
    \/ Destroy
    \/ Call
    \/ AddShader("VS")
    \/ AddShader("FS")
    \/ Link
    \/ Lower
    \/ Reparse
    \/ Samplers
    \/ ReadUniformBuffer
    \/ ReadPastEnd
    \/ ReadPastEndThrows
    \/ ReadPastEndCrashes
    \/ FlattenMember
    \/ Emit
    \/ Comment
    \/ Strip
    \/ Platform
    \/ OnCompiled
    \/ Return
    \/ Discard

Spec == Init /\ [][Next]_vars

---------------------------------------------------------------------------
(* Properties *)

Count(q, P(_)) == Cardinality({i \in 1..Len(q) : P(q[i])})

IsPrefix(p, q) == Len(p) <= Len(q) /\ SubSeq(q, 1, Len(p)) = p

InTrace(label) == \E i \in 1..Len(trace) : trace[i] = label

CallActive == outcome # "none"

CallEnded == pc = "idle" /\ outcome \in {"returned", "thrown"}

\* the members of the first uniform buffer whose shape is not supported
BadMembers(src) ==
    IF src.ubos = <<>> THEN {}
    ELSE {i \in 1..Len(src.ubos[1].members) :
             uniformType(src.ubos[1].members[i]) = ""}

\* some step of the call fails whatever else happens
InputFails ==
    \/ ~vertexSource.parses
    \/ ~fragmentSource.parses
    \/ ~linkable
    \/ BadMembers(vertexSource) # {}
    \/ BadMembers(fragmentSource) # {}
    \/ ~vertexSource.emits
    \/ ~fragmentSource.emits

\* no step of the call fails: both stages parse, link, declare a uniform
\* buffer of supported shapes and are emitted
InputSucceeds ==
    /\ ~InputFails
    /\ vertexSource.ubos # <<>>
    /\ fragmentSource.ubos # <<>>

StageSteps(st) ==
    <<<<"Lower", st>>, <<"Reparse", st>>, <<"Samplers", st>>, <<"Uniforms", st>>,
      <<"Emit", st>>, <<"Patch", st>>>>

\* the steps of a call that succeeds, in the order of the pipeline
Canonical ==
    <<<<"Parse", "VS">>, <<"Register", "VS">>, <<"Parse", "FS">>,
      <<"Register", "FS">>, <<"Link", "both">>>>
    \o StageSteps("VS") \o StageSteps("FS") \o <<<<"Callback", "both">>>>

InCompileShader ==
    pc \in {"Lower", "Reparse", "Samplers", "Uniforms", "Member", "Emit",
            "Comment", "Strip", "Platform"}

\* C1: a call in which both stages parse, the program links and both stages are
\* transpiled invokes onCompiled exactly once, with the vertex ShaderInfo
\* first and the fragment ShaderInfo second, each holding the text produced for
\* its stage, and the invocation is made before Compile returns.
C1_CallbackOnceBeforeReturn ==
    /\ Len(delivered) <= 1
    /\ (pc = "Return" \/ outcome = "returned") =>
          /\ Len(delivered) = 1
          /\ delivered[1][1].compiler.stage = "VS"
          /\ delivered[1][2].compiler.stage = "FS"
          /\ \A k \in 1..2 :
                LET src == IF k = 1 THEN vertexSource ELSE fragmentSource
                    st == IF k = 1 THEN "VS" ELSE "FS"
                IN  /\ delivered[1][k].glsl # src.text
                    /\ src.ubos # <<>> =>
                          delivered[1][k].compiler.names[src.ubos[1].id] = UnusedName(st)
    /\ (CallEnded /\ InputSucceeds) => outcome = "returned"
    /\ delivered # <<>> => pc \in {"Return", "idle"}

C1_Witness ==
    /\ outcome = "returned"
    /\ InputSucceeds
    /\ Len(delivered) = 1
    /\ delivered[1][1].compiler.stage = "VS"

\* C2: when the vertex parse, the fragment parse, the link or the transpilation
\* of a stage fails, Compile ends with a fatal error, onCompiled is never
\* invoked and no ShaderInfo or compiler handle survives the call.
C2_AllOrNothing ==
    /\ outcome \in {"thrown", "crashed"} => delivered = <<>>
    /\ outcome = "thrown" => pc = "idle" /\ handles = NoHandles /\ glsl = NoStrings
    /\ (CallActive /\ InputFails) => delivered = <<>> /\ pc # "OnCompiled"
    /\ (CallEnded /\ InputFails) => outcome = "thrown" /\ error.kind # "none"

C2_Witness ==
    /\ outcome = "thrown"
    /\ InTrace(<<"Patch", "VS">>)
    /\ error.at[2] = "FS"
    /\ delivered = <<>>

\* C8: with at most one ShaderCompiler alive at a time, the toolchain is
\* initialised once for each live ShaderCompiler: it is initialised in every
\* state in which Compile runs and is not initialised when none is alive.
C8_ToolchainLifecycle ==
    /\ toolchain = alive
    /\ alive \in {0, 1}
    /\ pc # "idle" => toolchain = 1
    /\ alive = 0 => toolchain = 0

C8_Witness ==
    /\ alive = 0
    /\ toolchain = 0
    /\ outcome \in {"returned", "thrown"}

\* C9: the steps of a call are started in the order Parse and Register of the
\* vertex stage, Parse and Register of the fragment stage, Link, then for the
\* vertex and then the fragment stage Lower, Re-parse, Samplers, Uniforms, Emit,
\* Patch, and last the callback; no step is started twice, CompileShader runs
\* only on a linked program holding both stages, and the step that throws is
\* the last step of the call.
C9_PipelineOrder ==
    /\ IsPrefix(trace, Canonical)
    /\ InCompileShader =>
          /\ program.linked
          /\ program.shaders = <<"VS", "FS">>
          /\ InTrace(<<"Link", "both">>)
    /\ pc = "Link" => program.shaders = <<"VS", "FS">> /\ ~program.linked
    /\ (InCompileShader /\ stage = "FS") => handles["VS"] # NoCompiler
    /\ outcome \in {"thrown", "crashed"} =>
          /\ trace # <<>>
          /\ trace[Len(trace)] = (IF outcome = "thrown" THEN error.at
                                  ELSE <<"Uniforms", stage>>)
          /\ pc \in {"idle", "crashed"}

C9_Witness ==
    /\ outcome = "returned"
    /\ trace = Canonical

\* C10: uniform_buffers[0] is read only for a stage that declares at least one
\* uniform buffer.
C10_GuardedUniformBufferAccess ==
    \A st \in read89 : Src(st).ubos # <<>>

\* the compilers on which the sampler loop has run, each with its stage's module
Reconciled ==
    (IF pc \in {"Uniforms", "Member", "Emit", "Comment", "Strip", "Platform"}
     THEN {<<compiler, spirv>>} ELSE {})
    \cup {<<handles[st], Src(st)>> : st \in {x \in Stages : handles[x] # NoCompiler}}
    \cup (IF delivered = <<>> THEN {}
          ELSE {<<delivered[1][1].compiler, vertexSource>>,
                <<delivered[1][2].compiler, fragmentSource>>})

\* the compilers on which the loop over the members has run to its end
Flattened ==
    (IF pc \in {"Emit", "Comment", "Strip", "Platform"}
     THEN {<<compiler, spirv>>} ELSE {})
    \cup {<<handles[st], Src(st)>> : st \in {x \in Stages : handles[x] # NoCompiler}}
    \cup (IF delivered = <<>> THEN {}
          ELSE {<<delivered[1][1].compiler, vertexSource>>,
                <<delivered[1][2].compiler, fragmentSource>>})

CombinedOf(c, S) == {k \in 1..Len(c.combined) : c.combined[k].sampler_id = S.id}

CarriesSampler(c, k, S) ==
    /\ c.names[c.combined[k].combined_id] = S.name
    /\ get_decoration(c, c.combined[k].combined_id) = S.binding

TypeKeyword(m) ==
    IF m.columns = 1 /\ m.vecsize = 4 THEN "vec4 "
    ELSE IF m.columns = 4 /\ m.vecsize = 4 THEN "mat4 "
    ELSE "unsupported"

\* the header lines that declare a uniform of the given name
LinesFor(c, m) == {i \in 1..Len(c.header) : c.header[i][3] = m.name}

DeclaredOnce(c, m) ==
    /\ Cardinality(LinesFor(c, m)) = 1
    /\ \A i \in LinesFor(c, m) :
          c.header[i] = <<"uniform ", TypeKeyword(m), m.name, ";">>

\* C4 as claimed: every member (of a supported shape) of every uniform buffer of
\* a stage gets exactly one header line `uniform <type> <name>;` with its name
\* and with vec4 or mat4 according to its shape.
C4_EveryBufferFlattened ==
    \A p \in Flattened :
        \A b \in Range(p[2].ubos) :
            \A m \in Range(b.members) :
                TypeKeyword(m) # "unsupported" => DeclaredOnce(p[1], m)

\* C4 as amended: every member of the first uniform buffer of a stage gets
\* exactly one header line `uniform <type> <name>;` with its name and with vec4
\* or mat4 according to its shape, and there is no other header line; the
\* members of any further uniform buffer get no header line.
C4_FirstBufferFlattened ==
    \A p \in Flattened :
        p[2].ubos # <<>> =>
            /\ \A m \in Range(p[2].ubos[1].members) : DeclaredOnce(p[1], m)
            /\ Len(p[1].header) = Len(p[2].ubos[1].members)
            /\ \A k \in 2..Len(p[2].ubos) :
                  \A m \in Range(p[2].ubos[k].members) : LinesFor(p[1], m) = {}

C4_Witness ==
    \E p \in Flattened :
        /\ Len(p[2].ubos) >= 2
        /\ Len(p[1].header) >= 2
        /\ \E i, j \in 1..Len(p[1].header) :
              p[1].header[i][2] = "vec4 " /\ p[1].header[j][2] = "mat4 "

Least(S) == CHOOSE i \in S : \A j \in S : i <= j

\* C5: when a member of the first uniform buffer of a stage has a shape other
\* than 1 column of 4 components or 4 columns of 4 components, CompileShader
\* throws at the first such member: no header line is ever added for such a
\* member, the stage is never emitted, no text and no compiler are returned
\* for it and onCompiled is not invoked.
C5_UnsupportedShapeIsFatal ==
    CallActive =>
        \A st \in Stages :
            LET bad == BadMembers(Src(st))
                members == Src(st).ubos[1].members
            IN  bad # {} =>
                /\ ~InTrace(<<"Emit", st>>)
                /\ glsl[st] \in {<<>>, Src(st).text}
                /\ handles[st] = NoCompiler
                /\ delivered = <<>>
                /\ (stage = st /\ compiler # NoCompiler) =>
                      \A i \in 1..Len(compiler.header) :
                          \A j \in bad : compiler.header[i][3] # members[j].name
                /\ (stage = st /\ pc = "Member") => index < Least(bad)
                /\ (CallEnded /\ InTrace(<<"Uniforms", st>>)) =>
                      /\ outcome = "thrown"
                      /\ error = [kind |-> "UnsupportedUniformShape",
                                  at |-> <<"Uniforms", st>>,
                                  member |-> Least(bad) - 1]

C5_Witness ==
    /\ outcome = "thrown"
    /\ error.kind = "UnsupportedUniformShape"
    /\ error.member >= 1
    /\ BadMembers(Src(stage)) # {}

NoAccess(text, st) == ~Occurs(text, unusedUniformAccess(st))

\* the declaration of the renamed struct instance, as the emitter prints it
Declaration(b, st) == <<"uniform ", b.typeName, " ">> \o UnusedName(st)

DeclaredAt(text, b, st) ==
    {i \in 1..(Len(text) - Len(Declaration(b, st)) + 1) :
        SubSeq(text, i, i + Len(Declaration(b, st)) - 1) = Declaration(b, st)}

CommentedOut(text, b, st) ==
    /\ DeclaredAt(text, b, st) # {}
    /\ \A i \in DeclaredAt(text, b, st) : i > 1 /\ text[i - 1] = "//"

\* C6 as claimed: after the textual cleanup the text holds no occurrence of the
\* stage's accessor prefix and the declaration of the renamed struct instance
\* is commented out.
C6_CleanupCommentsDeclaration ==
    pc = "Platform" =>
        /\ NoAccess(compiled, stage)
        /\ spirv.ubos # <<>> => CommentedOut(compiled, spirv.ubos[1], stage)

C6_CleanedState ==
    /\ pc = "Platform" =>
          /\ NoAccess(compiled, stage)
          /\ spirv.ubos # <<>> =>
                /\ DeclaredAt(compiled, spirv.ubos[1], stage) # {}
                /\ CommentedOut(compiled, spirv.ubos[1], stage)
                      <=> spirv.ubos[1].typeName = "Frame"
    /\ \A st \in Stages : handles[st] # NoCompiler => NoAccess(glsl[st], st)

C6_LoopShortens ==
    (pc = "Strip" /\ pc' = "Strip") => Len(compiled') < Len(compiled)

\* C6 as amended: every iteration of the cleanup loop shortens the text, so the
\* loop ends; after it the text, and the text returned for the stage, hold no
\* occurrence of the stage's accessor prefix, also none that a deletion brought
\* about; the declaration of the renamed struct instance is commented out when
\* the type of the uniform block is named Frame, and stays as emitted
\* otherwise.
C6_UnusedStructNeutrality == [](C6_CleanedState) /\ [][C6_LoopShortens]_vars

C6_Witness ==
    /\ pc = "Platform"
    /\ stage = "VS"
    /\ spirv.body = <<"Unused", "@", "VS", ".">>
    /\ NoAccess(compiled, stage)
    /\ CommentedOut(compiled, spirv.ubos[1], stage)

\* C7: under ANDROID the text returned by CompileShader has no leading version
\* line, no output declaration of glFragColor and no reference to glFragColor.
C7_ConstrainedProfilePatch ==
    android =>
        \A st \in Stages :
            handles[st] # NoCompiler =>
                /\ find(glsl[st], versionLine300es) # 1
                /\ ~Occurs(glsl[st], fragDef)
                /\ ~Occurs(glsl[st], fragColor)

=============================================================================
